---- MODULE Spec2Model ----
(***************************************************************************)
(* Model of the parallel PPO trainer of src/ppo_run.py and src/ppo_alg.py: *)
(* rollout workers (worker), the coordinator's iteration loop (train), the *)
(* policy update (PPO.update) with its snapshot policy_old, and the        *)
(* advantage estimator (PPO.compute_gae).                                  *)
(***************************************************************************)
EXTENDS Integers, Sequences, FiniteSets, TLC

(* ---------------------------------------------------------------------- *)
(* Configuration (train_config / PPO hyper-parameters), kept small.       *)
(* ---------------------------------------------------------------------- *)
lower_num_processes == 2
\* max_timesteps // action_duration
total_action_timesteps_per_episode == 3
memory_transfer_freq == 2
lower_update_freq == 3
total_iterations == 2
K_epochs == 1
batch_size == 2
\* number of parameter tensors in the policy's state_dict
NParams == 2

\* optim.Adam(self.policy.parameters(), ...): the optimizer's parameter groups
NParamGroups == 1
\* train_config['lower_anneal_lr'], train_config['lower_lr']
lower_anneal_lr == TRUE
lower_lr == <<1, 2>>
\* train_config['higher_update_freq']
higher_update_freq == 2

Ranks == 0 .. (lower_num_processes - 1)
ParamGroups == 1 .. NParamGroups
\* PPO.total_iterations: None until train() sets it
NotConfigured == [set |-> FALSE, n |-> 0]
Configured(n) == [set |-> TRUE, n |-> n]
\* current_lr before the first call has bound it
NoLr == <<0, 0>>
\* train_config['seed'], passed to every worker as global_seed
SEED == 5
\* a worker process that has not constructed its environment
NoEnv == [worker_id |-> -1, worker_seed |-> -1, sumo_running |-> FALSE]
\* the value of policy_loss before a minibatch has been evaluated
NoLoss == <<0, 0>>
Params == 1 .. NParams
\* payloads of the queue: a Memory (its transitions), or None
None == [none |-> TRUE, mem |-> <<>>]
Memory(mem) == [none |-> FALSE, mem |-> mem]

VARIABLES
    \* ---- coordinator (train) ----
    iteration,          \* loop variable of train()
    cpc,                \* coordinator's position in train()/update()
    memory_queue,       \* manager.Queue(): FIFO of <<rank, payload>>
    all_memories,       \* accumulation list
    active_workers,     \* set of ranks not yet finished
    action_timesteps,   \* running step counter
    update_calls,       \* number of lower_ppo.update() invocations so far
    \* ---- PPO ----
    policy,             \* live parameters: parameter index -> version
    policy_old,         \* shared snapshot:  parameter index -> version
    epoch,              \* update(): epochs completed
    mb,                 \* update(): minibatches completed in this epoch
    pub_idx,            \* load_state_dict: parameters copied so far
    consumed,           \* transitions of this iteration that an update() has used
    \* ---- workers ----
    wpc,                \* rank -> position in worker()
    t,                  \* rank -> loop iterations completed
    rd,                 \* rank -> parameter versions read by the act() in progress
    local_memory,       \* rank -> local Memory (sequence of transitions)
    steps_since_update, \* rank -> steps since the last flush
    env,                \* rank -> the worker's seed and its CraverControlEnv
    \* ---- advantage estimation ----
    estimator,          \* one run of update() up to its dataset (fields below)
    \* ---- learning rate ----
    lpc,                \* position of a lone update_learning_rate call
    initial_lr,         \* PPO.initial_lr, a rational
    ppo_total_iterations, \* PPO.total_iterations: None or a number
    lr,                 \* optimizer.param_groups: group -> 'lr'
    current_lr,         \* the value update_learning_rate returned last
    lr_iteration,       \* the argument of that call
    \* ---- the passes of update() over its dataset ----
    dataloader,         \* the epoch loop and its DataLoader (fields below)
    \* ---- the policy loss of one minibatch (update's inner loop body) ----
    minibatch,          \* the tensors of one minibatch (fields below)
    \* ---- history ----
    higher_updates,     \* the iterations in which higher_ppo.update() was called
    \* ---- a Memory object on its own ----
    memory_lists        \* its five lists

coordVars == <<iteration, cpc, memory_queue, all_memories, active_workers,
               action_timesteps, update_calls>>
ppoVars == <<policy, policy_old, epoch, mb, pub_idx, consumed>>
workerVars == <<wpc, t, rd, local_memory, steps_since_update, env>>
gaeVars == <<estimator>>
lrVars == <<lpc, initial_lr, ppo_total_iterations, lr, current_lr, lr_iteration>>
loaderVars == <<dataloader>>
lossVars == <<minibatch>>
vars == <<coordVars, ppoVars, workerVars, gaeVars, lrVars, loaderVars,
         lossVars, higher_updates, memory_lists>>

(* ---------------------------------------------------------------------- *)
(* The fields of estimator, dataloader and minibatch                      *)
(* ---------------------------------------------------------------------- *)
\* position of the estimator run
gpc == estimator.gpc
\* argument of update(): list of buffers
memories == estimator.memories
\* discount, a rational <<num, den>>
gamma == estimator.gamma
\* trace decay, a rational <<num, den>>
gae_lambda == estimator.gae_lambda
\* result of compute_gae over the combined memory
advantages == estimator.advantages
\* update(): advantages + values
returns == estimator.returns
\* update(): advantages after their normalization
norm_advantages == estimator.norm_advantages

\* position in the epoch loop
dl_pc == dataloader.dl_pc
\* len(dataset)
dl_n == dataloader.dl_n
\* the minibatches of this pass: lists of dataset indices
dl_batches == dataloader.dl_batches
\* minibatches of this pass already used
dl_seen == dataloader.dl_seen
\* passes completed
dl_epochs == dataloader.dl_epochs
\* optimizer.step() calls so far
dl_steps == dataloader.dl_steps

\* exp(logprobs - old_logprobs_batch), one per element
ratios == minibatch.ratios
\* the minibatch's normalized advantages
advantages_batch == minibatch.advantages_batch
\* self.eps_clip
eps_clip == minibatch.eps_clip
\* -torch.min(surr1, surr2).mean(), NoLoss before its assignment
policy_loss == minibatch.policy_loss

(* ---------------------------------------------------------------------- *)
(* Helpers                                                                *)
(* ---------------------------------------------------------------------- *)
RECURSIVE ConcatPrepending(_)
\* a combination that inserts every transition at the front of the lists
ConcatPrepending(bufs) ==
    IF bufs = <<>> THEN <<>>
    ELSE ConcatPrepending(Tail(bufs))
         \o [i \in 1 .. Len(Head(bufs)) |-> Head(bufs)[Len(Head(bufs)) + 1 - i]]

RECURSIVE Concat(_)
\* combined_memory.<list>.extend(memory.<list>) for memory in memories
Concat(bufs) ==
    IF bufs = <<>> THEN <<>> ELSE Head(bufs) \o Concat(Tail(bufs))

\* len(dataloader): number of minibatches of a dataset of n elements
NumBatches(n) == (n + batch_size - 1) \div batch_size

\* A Memory as it crosses the queue: the sequence of its transitions.
Transition(r, ver, done) ==
    [st |-> <<iteration, r, t[r]>>, ver |-> ver, done |-> done]

(* ---------------------------------------------------------------------- *)
(* Exact arithmetic: the numbers of compute_gae, of update() and
(* of update_learning_rate as rationals <<num, den>>  *)
<<num, den>> in lowest terms with den > 0.  *)
(* ---------------------------------------------------------------------- *)
Abs(x) == IF x < 0 THEN -x ELSE x

RECURSIVE Gcd(_, _)
Gcd(a, b) == IF b = 0 THEN a ELSE Gcd(b, a % b)

Rat(num, den) ==
    LET g == Gcd(Abs(num), Abs(den))
        sgn == IF den < 0 THEN -1 ELSE 1
    IN <<sgn * (num \div g), sgn * (den \div g)>>

RInt(i) == <<i, 1>>
Lcm(a, b) == (a \div Gcd(a, b)) * b
RAdd(a, b) ==
    LET d == Lcm(a[2], b[2])
    IN Rat(a[1] * (d \div a[2]) + b[1] * (d \div b[2]), d)
RSub(a, b) == RAdd(a, <<-b[1], b[2]>>)
RMul(a, b) == Rat(a[1] * b[1], a[2] * b[2])
RDivInt(a, k) == Rat(a[1], a[2] * k)
RLeq(a, b) == a[1] * b[2] <= b[1] * a[2]

RECURSIVE RSum(_)
RSum(seq) == IF seq = <<>> THEN RInt(0) ELSE RAdd(seq[1], RSum(Tail(seq)))

(* ---------------------------------------------------------------------- *)
(* Initial state: PPO constructed, train() about to enter its loop.       *)
(* ---------------------------------------------------------------------- *)
InitTrainer ==
    /\ iteration = 0
    /\ cpc = "spawn"
    /\ memory_queue = <<>>
    /\ all_memories = <<>>
    /\ active_workers = {}
    /\ action_timesteps = 0
    /\ update_calls = 0
    /\ higher_updates = <<>>
    /\ policy = [k \in Params |-> 0]
    /\ policy_old = [k \in Params |-> 0]
    /\ epoch = 0
    /\ mb = 0
    /\ pub_idx = 0
    /\ consumed = {}
    /\ wpc = [r \in Ranks |-> "none"]
    /\ t = [r \in Ranks |-> 0]
    /\ rd = [r \in Ranks |-> <<>>]
    /\ local_memory = [r \in Ranks |-> <<>>]
    /\ steps_since_update = [r \in Ranks |-> 0]
    /\ env = [r \in Ranks |-> NoEnv]

InitGaeIdle ==
    estimator = [gpc |-> "idle", memories |-> <<>>, gamma |-> <<1, 1>>,
                 gae_lambda |-> <<1, 1>>, advantages |-> <<>>,
                 returns |-> <<>>, norm_advantages |-> <<>>]

\* PPO.__init__ (initial_lr, the optimizer) and train() up to its loop
\* (lower_ppo.total_iterations = total_iterations)
InitLrTrainer ==
    /\ lpc = "idle"
    /\ initial_lr = lower_lr
    /\ ppo_total_iterations = Configured(total_iterations)
    /\ lr = [g \in ParamGroups |-> lower_lr]
    /\ current_lr = NoLr
    /\ lr_iteration = 0

\* no update() is running its epoch loop
InitLoaderIdle ==
    dataloader = [dl_pc |-> "idle", dl_n |-> 0, dl_batches |-> <<>>,
                  dl_seen |-> 0, dl_epochs |-> 0, dl_steps |-> 0]

\* Memory.__init__: five empty lists
EmptyMemory ==
    [actions |-> <<>>, states |-> <<>>, logprobs |-> <<>>, rewards |-> <<>>,
     is_terminals |-> <<>>]

InitMemoryIdle == memory_lists = EmptyMemory

\* no minibatch is being evaluated
InitLossIdle ==
    minibatch = [ratios |-> <<>>, advantages_batch |-> <<>>,
                 eps_clip |-> RInt(0), policy_loss |-> NoLoss]

Init ==
    /\ InitTrainer
    /\ InitGaeIdle
    /\ InitLrTrainer
    /\ InitLoaderIdle
    /\ InitLossIdle
    /\ InitMemoryIdle

(* ---------------------------------------------------------------------- *)
(* PPO.update_learning_rate(iteration)                                    *)
(* ---------------------------------------------------------------------- *)
\* a schedule that ends one step short of zero
NewLrShort(i, total, initial) ==
    RMul(RSub(RInt(1), Rat(i, total + 1)), initial)

\* frac = 1.0 - (iteration / self.total_iterations); new_lr = frac * initial_lr
NewLr(i, total, initial) ==
    RMul(RSub(RInt(1), Rat(i, total)), initial)

\* the loop over optimizer.param_groups and the return value
SetLr(i) ==
    /\ current_lr' = NewLr(i, ppo_total_iterations.n, initial_lr)
    /\ lr' = [g \in ParamGroups |-> current_lr']
    /\ lr_iteration' = i
    /\ UNCHANGED <<initial_lr, ppo_total_iterations>>

(* ---------------------------------------------------------------------- *)
(* worker(rank, config, shared_policy_old, memory_queue, global_seed)     *)
(* ---------------------------------------------------------------------- *)
\* a worker that seeds its generators with the global seed alone
WorkerSeedShared(rank, global_seed) == global_seed

\* worker_seed = global_seed + rank
WorkerSeed(rank, global_seed) == global_seed + rank

\* CraverControlEnv(config, worker_id) after reset(): the id that suffixes
\* its output trip files, and its running simulation
CraverControlEnv(worker_id, worker_seed) ==
    [worker_id |-> worker_id, worker_seed |-> worker_seed, sumo_running |-> TRUE]

\* the output trip files of an environment: the configured names with
\* unique_suffix = _<worker_id> before .xml
TripFiles(e) ==
    {<<"vehicle_output_trips", e.worker_id>>,
     <<"pedestrian_output_trips", e.worker_id>>}

\* seeds, environment construction, env.reset(), local_memory = Memory()
WorkerInit(r) ==
    /\ wpc[r] = "init"
    /\ wpc' = [wpc EXCEPT ![r] = "act"]
    /\ env' = [env EXCEPT ![r] = CraverControlEnv(r, WorkerSeed(r, SEED))]
    /\ t' = [t EXCEPT ![r] = 0]
    /\ rd' = [rd EXCEPT ![r] = <<>>]
    /\ local_memory' = [local_memory EXCEPT ![r] = <<>>]
    /\ steps_since_update' = [steps_since_update EXCEPT ![r] = 0]
    /\ UNCHANGED <<coordVars, ppoVars, gaeVars, lrVars, loaderVars, lossVars,
                   higher_updates, memory_lists>>

\* a forward pass that also writes the shared tensor it reads (a module
\* in training mode that keeps running statistics)
WorkerActReadWriting(r) ==
    /\ wpc[r] = "act"
    /\ LET k == Len(rd[r]) + 1 IN
        /\ rd' = [rd EXCEPT ![r] = Append(@, policy_old[k])]
        /\ policy_old' = [policy_old EXCEPT ![k] = @ + 1]
        /\ wpc' = [wpc EXCEPT ![r] = IF k = NParams THEN "step" ELSE "act"]
    /\ UNCHANGED <<t, local_memory, steps_since_update, env>>
    /\ UNCHANGED <<policy, epoch, mb, pub_idx, consumed>>
    /\ UNCHANGED <<coordVars, gaeVars, lrVars, loaderVars, lossVars,
                   higher_updates, memory_lists>>

\* shared_policy_old.act(state_tensor): the forward pass reads the shared
\* parameter tensors one after the other, without any lock.
WorkerActRead(r) ==
    /\ wpc[r] = "act"
    /\ LET k == Len(rd[r]) + 1 IN
        /\ rd' = [rd EXCEPT ![r] = Append(@, policy_old[k])]
        /\ wpc' = [wpc EXCEPT ![r] = IF k = NParams THEN "step" ELSE "act"]
    /\ UNCHANGED <<t, local_memory, steps_since_update, env>>
    /\ UNCHANGED <<coordVars, ppoVars, gaeVars, lrVars, loaderVars, lossVars,
                   higher_updates, memory_lists>>

\* act() raises: nothing catches it, the process ends with the exception.
WorkerActFail(r) ==
    /\ wpc[r] = "act"
    /\ wpc' = [wpc EXCEPT ![r] = "failed"]
    /\ UNCHANGED <<t, rd, local_memory, steps_since_update, env>>
    /\ UNCHANGED <<coordVars, ppoVars, gaeVars, lrVars, loaderVars, lossVars,
                   higher_updates, memory_lists>>

\* a worker that flushes one step late: > in place of >= in the flush test
WorkerStepLateFlush(r, done, truncated) ==
    /\ wpc[r] = "step"
    /\ LET mem == Append(local_memory[r], Transition(r, rd[r], done))
           steps == steps_since_update[r] + 1
           flush == steps > memory_transfer_freq \/ done \/ truncated
           last == done \/ truncated
                   \/ t[r] + 1 = total_action_timesteps_per_episode
       IN
        /\ memory_queue' = IF flush THEN Append(memory_queue, <<r, Memory(mem)>>)
                           ELSE memory_queue
        /\ local_memory' = [local_memory EXCEPT ![r] = IF flush THEN <<>> ELSE mem]
        /\ steps_since_update' =
               [steps_since_update EXCEPT ![r] = IF flush THEN 0 ELSE steps]
        /\ t' = [t EXCEPT ![r] = @ + 1]
        /\ rd' = [rd EXCEPT ![r] = <<>>]
        /\ wpc' = [wpc EXCEPT ![r] = IF last THEN "close" ELSE "act"]
    /\ UNCHANGED env
    /\ UNCHANGED <<iteration, cpc, all_memories, active_workers,
                   action_timesteps, update_calls>>
    /\ UNCHANGED <<ppoVars, gaeVars, lrVars, loaderVars, lossVars,
                   higher_updates, memory_lists>>

\* a worker that keeps its buffer after a flush: local_memory = Memory() left out
WorkerStepKeepsBuffer(r, done, truncated) ==
    /\ wpc[r] = "step"
    /\ LET mem == Append(local_memory[r], Transition(r, rd[r], done))
           steps == steps_since_update[r] + 1
           flush == steps >= memory_transfer_freq \/ done \/ truncated
           last == done \/ truncated
                   \/ t[r] + 1 = total_action_timesteps_per_episode
       IN
        /\ memory_queue' = IF flush THEN Append(memory_queue, <<r, Memory(mem)>>)
                           ELSE memory_queue
        /\ local_memory' = [local_memory EXCEPT ![r] = mem]
        /\ steps_since_update' =
               [steps_since_update EXCEPT ![r] = IF flush THEN 0 ELSE steps]
        /\ t' = [t EXCEPT ![r] = @ + 1]
        /\ rd' = [rd EXCEPT ![r] = <<>>]
        /\ wpc' = [wpc EXCEPT ![r] = IF last THEN "close" ELSE "act"]
    /\ UNCHANGED env
    /\ UNCHANGED <<iteration, cpc, all_memories, active_workers,
                   action_timesteps, update_calls>>
    /\ UNCHANGED <<ppoVars, gaeVars, lrVars, loaderVars, lossVars,
                   higher_updates, memory_lists>>

\* env.step(action) returns; append; flush test; break test.
WorkerStep(r, done, truncated) ==
    /\ wpc[r] = "step"
    /\ LET mem == Append(local_memory[r], Transition(r, rd[r], done))
           steps == steps_since_update[r] + 1
           flush == steps >= memory_transfer_freq \/ done \/ truncated
           last == done \/ truncated
                   \/ t[r] + 1 = total_action_timesteps_per_episode
       IN
        /\ memory_queue' = IF flush THEN Append(memory_queue, <<r, Memory(mem)>>)
                           ELSE memory_queue
        /\ local_memory' = [local_memory EXCEPT ![r] = IF flush THEN <<>> ELSE mem]
        /\ steps_since_update' =
               [steps_since_update EXCEPT ![r] = IF flush THEN 0 ELSE steps]
        /\ t' = [t EXCEPT ![r] = @ + 1]
        /\ rd' = [rd EXCEPT ![r] = <<>>]
        /\ wpc' = [wpc EXCEPT ![r] = IF last THEN "close" ELSE "act"]
    /\ UNCHANGED env
    /\ UNCHANGED <<iteration, cpc, all_memories, active_workers,
                   action_timesteps, update_calls>>
    /\ UNCHANGED <<ppoVars, gaeVars, lrVars, loaderVars, lossVars,
                   higher_updates, memory_lists>>

\* env.step() raises: nothing catches it, the process ends with the exception.
WorkerStepFail(r) ==
    /\ wpc[r] = "step"
    /\ wpc' = [wpc EXCEPT ![r] = "failed"]
    /\ UNCHANGED <<t, rd, local_memory, steps_since_update, env>>
    /\ UNCHANGED <<coordVars, ppoVars, gaeVars, lrVars, loaderVars, lossVars,
                   higher_updates, memory_lists>>

\* env.close()
WorkerClose(r) ==
    /\ wpc[r] = "close"
    /\ wpc' = [wpc EXCEPT ![r] = "sentinel"]
    /\ env' = [env EXCEPT ![r].sumo_running = FALSE]
    /\ UNCHANGED <<t, rd, local_memory, steps_since_update>>
    /\ UNCHANGED <<coordVars, ppoVars, gaeVars, lrVars, loaderVars, lossVars,
                   higher_updates, memory_lists>>

\* env.close() (traci.close) raises: the process ends with the exception.
WorkerCloseFail(r) ==
    /\ wpc[r] = "close"
    /\ wpc' = [wpc EXCEPT ![r] = "failed"]
    /\ UNCHANGED <<t, rd, local_memory, steps_since_update, env>>
    /\ UNCHANGED <<coordVars, ppoVars, gaeVars, lrVars, loaderVars, lossVars,
                   higher_updates, memory_lists>>

\* a worker that returns without putting its sentinel
WorkerSentinelSilent(r) ==
    /\ wpc[r] = "sentinel"
    /\ wpc' = [wpc EXCEPT ![r] = "returned"]
    /\ UNCHANGED <<t, rd, local_memory, steps_since_update, env>>
    /\ UNCHANGED <<coordVars, ppoVars, gaeVars, lrVars, loaderVars, lossVars,
                   higher_updates, memory_lists>>

\* memory_queue.put((rank, None)): the last statement of worker()
WorkerSentinel(r) ==
    /\ wpc[r] = "sentinel"
    /\ memory_queue' = Append(memory_queue, <<r, None>>)
    /\ wpc' = [wpc EXCEPT ![r] = "returned"]
    /\ UNCHANGED <<t, rd, local_memory, steps_since_update, env>>
    /\ UNCHANGED <<iteration, cpc, all_memories, active_workers,
                   action_timesteps, update_calls>>
    /\ UNCHANGED <<ppoVars, gaeVars, lrVars, loaderVars, lossVars,
                   higher_updates, memory_lists>>

\* worker() has returned: the process ends, which is what join() awaits
WorkerExit(r) ==
    /\ wpc[r] = "returned"
    /\ wpc' = [wpc EXCEPT ![r] = "exited"]
    /\ UNCHANGED <<t, rd, local_memory, steps_since_update, env>>
    /\ UNCHANGED <<coordVars, ppoVars, gaeVars, lrVars, loaderVars, lossVars,
                   higher_updates, memory_lists>>

(* ---------------------------------------------------------------------- *)
(* PPO.update(memories), run by the coordinator inside its receive loop.  *)
(* ---------------------------------------------------------------------- *)
\* number of transitions of the combined memory
BatchLen == Len(Concat(all_memories))

\* combine the memories, stack the tensors, values, GAE, returns, dataloader.
\* torch.stack of an empty list raises.
UpdateBegin ==
    /\ cpc = "update"
    /\ cpc' = IF BatchLen = 0 THEN "error" ELSE "grad"
    /\ epoch' = 0
    /\ mb' = 0
    /\ UNCHANGED <<policy, policy_old, pub_idx, consumed>>
    /\ UNCHANGED <<iteration, memory_queue, all_memories, active_workers,
                   action_timesteps, update_calls>>
    /\ UNCHANGED <<workerVars, gaeVars, lrVars, loaderVars, lossVars,
                   higher_updates, memory_lists>>

\* optimizer.step(): every parameter of the live policy moves
StepParams(p) == [k \in Params |-> p[k] + 1]

\* a gradient step that also copies the new weights into policy_old
GradStepPublishing ==
    /\ cpc = "grad"
    /\ policy' = StepParams(policy)
    /\ policy_old' = StepParams(policy)
    /\ UNCHANGED consumed
    /\ LET lastMb == mb + 1 = NumBatches(BatchLen)
           lastEpoch == epoch + 1 = K_epochs
       IN
        /\ mb' = IF lastMb THEN 0 ELSE mb + 1
        /\ epoch' = IF lastMb THEN epoch + 1 ELSE epoch
        /\ cpc' = IF lastMb /\ lastEpoch THEN "publish" ELSE "grad"
    /\ pub_idx' = 0
    /\ UNCHANGED <<iteration, memory_queue, all_memories, active_workers,
                   action_timesteps, update_calls>>
    /\ UNCHANGED <<workerVars, gaeVars, lrVars, loaderVars, lossVars,
                   higher_updates, memory_lists>>

\* one minibatch: evaluate, losses, zero_grad, backward, optimizer.step()
GradStep ==
    /\ cpc = "grad"
    /\ policy' = StepParams(policy)
    /\ LET lastMb == mb + 1 = NumBatches(BatchLen)
           lastEpoch == epoch + 1 = K_epochs
       IN
        /\ mb' = IF lastMb THEN 0 ELSE mb + 1
        /\ epoch' = IF lastMb THEN epoch + 1 ELSE epoch
        /\ cpc' = IF lastMb /\ lastEpoch THEN "publish" ELSE "grad"
    /\ pub_idx' = 0
    /\ UNCHANGED <<policy_old, consumed>>
    /\ UNCHANGED <<iteration, memory_queue, all_memories, active_workers,
                   action_timesteps, update_calls>>
    /\ UNCHANGED <<workerVars, gaeVars, lrVars, loaderVars, lossVars,
                   higher_updates, memory_lists>>

\* policy_old.load_state_dict(policy.state_dict()): the parameters are
\* copied in place into the shared tensors, one tensor after the other.
CopyParam(old, k) == [old EXCEPT ![k] = policy[k]]

PublishParam ==
    /\ cpc = "publish"
    /\ policy_old' = CopyParam(policy_old, pub_idx + 1)
    /\ pub_idx' = pub_idx + 1
    /\ cpc' = IF pub_idx + 1 = NParams THEN "after_update" ELSE "publish"
    /\ UNCHANGED <<policy, epoch, mb, consumed>>
    /\ UNCHANGED <<iteration, memory_queue, all_memories, active_workers,
                   action_timesteps, update_calls>>
    /\ UNCHANGED <<workerVars, gaeVars, lrVars, loaderVars, lossVars,
                   higher_updates, memory_lists>>

(* ---------------------------------------------------------------------- *)
(* train(): the iteration loop of the coordinator                         *)
(* ---------------------------------------------------------------------- *)
\* manager.Queue(), start one process per rank, all_memories = [],
\* active_workers = set(range(lower_num_processes))
StartIteration ==
    /\ cpc = "spawn"
    /\ iteration < total_iterations
    /\ memory_queue' = <<>>
    /\ wpc' = [r \in Ranks |-> "init"]
    /\ IF lower_anneal_lr
       THEN SetLr(iteration) /\ UNCHANGED lpc
       ELSE UNCHANGED lrVars
    /\ all_memories' = <<>>
    /\ active_workers' = Ranks
    /\ cpc' = "get"
    /\ consumed' = {}
    /\ UNCHANGED <<iteration, action_timesteps, update_calls>>
    /\ UNCHANGED <<t, rd, local_memory, steps_since_update, env>>
    /\ UNCHANGED <<policy, policy_old, epoch, mb, pub_idx>>
    /\ UNCHANGED <<gaeVars, loaderVars, lossVars, higher_updates, memory_lists>>

\* an update on every arrival: the frequency test left out
UpdateDueEveryArrival(count) == count > 0

\* the update test of train(): action_timesteps % lower_update_freq == 0
UpdateDue(count) == count % lower_update_freq = 0

\* a receive whose update test is also run after a sentinel
CoordRecvTestsAfterSentinel ==
    /\ cpc = "get"
    /\ active_workers # {}
    /\ memory_queue # <<>>
    /\ LET rank == Head(memory_queue)[1]
           memory == Head(memory_queue)[2]
           count == action_timesteps + Len(memory.mem)
       IN
        /\ memory_queue' = Tail(memory_queue)
        /\ active_workers' = IF memory.none THEN active_workers \ {rank}
                              ELSE active_workers
        /\ all_memories' = IF memory.none THEN all_memories
                            ELSE Append(all_memories, memory.mem)
        /\ action_timesteps' = count
        /\ IF UpdateDue(count)
           THEN cpc' = "update" /\ update_calls' = update_calls + 1
           ELSE cpc' = "get" /\ UNCHANGED update_calls
    /\ UNCHANGED iteration
    /\ UNCHANGED <<ppoVars, workerVars, gaeVars, lrVars, loaderVars, lossVars,
                   higher_updates, memory_lists>>

\* memory_queue.get(timeout=60) returns a message
CoordRecv ==
    /\ cpc = "get"
    /\ active_workers # {}
    /\ memory_queue # <<>>
    /\ LET rank == Head(memory_queue)[1]
           memory == Head(memory_queue)[2]
       IN
        /\ memory_queue' = Tail(memory_queue)
        /\ IF memory.none
           THEN /\ active_workers' = active_workers \ {rank}
                /\ cpc' = IF rank \in active_workers THEN "get" ELSE "error"
                /\ UNCHANGED <<all_memories, action_timesteps, update_calls>>
           ELSE /\ all_memories' = Append(all_memories, memory.mem)
                /\ action_timesteps' = action_timesteps + Len(memory.mem)
                /\ IF UpdateDue(action_timesteps + Len(memory.mem))
                   THEN cpc' = "update" /\ update_calls' = update_calls + 1
                   ELSE cpc' = "get" /\ UNCHANGED update_calls
                /\ UNCHANGED active_workers
    /\ UNCHANGED iteration
    /\ UNCHANGED <<ppoVars, workerVars, gaeVars, lrVars, loaderVars, lossVars,
                   higher_updates, memory_lists>>

\* a coordinator that gives up on the workers it has not heard from when
\* get() times out
CoordTimeoutAbandons ==
    /\ cpc = "get"
    /\ active_workers # {}
    /\ memory_queue = <<>>
    /\ active_workers' = {}
    /\ UNCHANGED <<iteration, cpc, memory_queue, all_memories,
                   action_timesteps, update_calls>>
    /\ UNCHANGED <<ppoVars, workerVars, gaeVars, lrVars, loaderVars, lossVars,
                   higher_updates, memory_lists>>

\* a coordinator that drops what it has accumulated when get() times out
CoordTimeoutDropsBatch ==
    /\ cpc = "get"
    /\ active_workers # {}
    /\ memory_queue = <<>>
    /\ all_memories' = <<>>
    /\ UNCHANGED <<iteration, cpc, memory_queue, active_workers,
                   action_timesteps, update_calls>>
    /\ UNCHANGED <<ppoVars, workerVars, gaeVars, lrVars, loaderVars, lossVars,
                   higher_updates, memory_lists>>

\* memory_queue.get(timeout=60) raises queue.Empty; the handler prints a
\* message and control is back at the while test with nothing changed
CoordTimeout ==
    /\ cpc = "get"
    /\ active_workers # {}
    /\ memory_queue = <<>>
    /\ UNCHANGED <<coordVars, ppoVars, workerVars, gaeVars, lrVars, loaderVars, lossVars,
                   higher_updates, memory_lists>>

\* the identities of the transitions of a list of buffers
Ids(mems) == {Concat(mems)[i].st : i \in 1 .. Len(Concat(mems))}

\* after update() returns, with the accumulation list left as it is
AfterUpdateKeeps ==
    /\ cpc = "after_update"
    /\ consumed' = consumed \cup Ids(all_memories)
    /\ cpc' = "get"
    /\ UNCHANGED <<iteration, memory_queue, all_memories, active_workers,
                   action_timesteps, update_calls>>
    /\ UNCHANGED <<policy, policy_old, epoch, mb, pub_idx>>
    /\ UNCHANGED <<workerVars, gaeVars, lrVars, loaderVars, lossVars,
                   higher_updates, memory_lists>>

\* after update() returns: reward average, memory.clear_memory(),
\* all_memories = [], logging; the batch has been used
AfterUpdate ==
    /\ cpc = "after_update"
    /\ consumed' = consumed \cup Ids(all_memories)
    /\ all_memories' = <<>>
    /\ cpc' = "get"
    /\ UNCHANGED <<iteration, memory_queue, active_workers,
                   action_timesteps, update_calls>>
    /\ UNCHANGED <<policy, policy_old, epoch, mb, pub_idx>>
    /\ UNCHANGED <<workerVars, gaeVars, lrVars, loaderVars, lossVars,
                   higher_updates, memory_lists>>

\* a collection loop that is left as soon as the queue is found empty
CoordExitLoopOnEmptyQueue ==
    /\ cpc = "get"
    /\ memory_queue = <<>>
    /\ cpc' = "join"
    /\ UNCHANGED <<iteration, memory_queue, all_memories, active_workers,
                   action_timesteps, update_calls>>
    /\ UNCHANGED <<ppoVars, workerVars, gaeVars, lrVars, loaderVars, lossVars,
                   higher_updates, memory_lists>>

\* while active_workers: is false
CoordExitLoop ==
    /\ cpc = "get"
    /\ active_workers = {}
    /\ cpc' = "join"
    /\ UNCHANGED <<iteration, memory_queue, all_memories, active_workers,
                   action_timesteps, update_calls>>
    /\ UNCHANGED <<ppoVars, workerVars, gaeVars, lrVars, loaderVars, lossVars,
                   higher_updates, memory_lists>>

\* a worker process that has ended, normally or with an exception
Ended(r) == wpc[r] \in {"exited", "failed"}
NoWorkerAlive == \A r \in Ranks : Ended(r)

\* the joins skipped: the coordinator goes on without awaiting the processes
JoinAllNoWait ==
    /\ cpc = "join"
    /\ cpc' = "higher"
    /\ UNCHANGED <<iteration, memory_queue, all_memories, active_workers,
                   action_timesteps, update_calls>>
    /\ UNCHANGED <<ppoVars, workerVars, gaeVars, lrVars, loaderVars, lossVars,
                   higher_updates, memory_lists>>

\* for p in processes: p.join() returns once every worker process has ended
JoinAll ==
    /\ cpc = "join"
    /\ \A r \in Ranks : Ended(r)
    /\ cpc' = "higher"
    /\ UNCHANGED <<iteration, memory_queue, all_memories, active_workers,
                   action_timesteps, update_calls>>
    /\ UNCHANGED <<ppoVars, workerVars, gaeVars, lrVars, loaderVars, lossVars,
                   higher_updates, memory_lists>>

\* a higher-level update at the end of every iteration
HigherDueEveryIteration(i) == TRUE

\* if iteration % train_config['higher_update_freq'] == 0
HigherDue(i) == i % higher_update_freq = 0

\* an end of iteration that restarts the step counter
HigherUpdateResetsCounter ==
    /\ cpc = "higher"
    /\ higher_updates' = IF HigherDue(iteration)
                         THEN Append(higher_updates, iteration)
                         ELSE higher_updates
    /\ iteration' = iteration + 1
    /\ cpc' = IF iteration + 1 < total_iterations THEN "spawn" ELSE "done"
    /\ action_timesteps' = 0
    /\ UNCHANGED <<memory_queue, all_memories, active_workers, update_calls>>
    /\ UNCHANGED <<ppoVars, workerVars, gaeVars, lrVars, loaderVars, lossVars,
                   memory_lists>>

\* the end of the for body: when the iteration is due, the higher-level
\* agent's episode and higher_ppo.update() (they touch none of the state
\* above); then the for loop moves to the next iteration
HigherUpdate ==
    /\ cpc = "higher"
    /\ higher_updates' = IF HigherDue(iteration)
                         THEN Append(higher_updates, iteration)
                         ELSE higher_updates
    /\ iteration' = iteration + 1
    /\ cpc' = IF iteration + 1 < total_iterations THEN "spawn" ELSE "done"
    /\ UNCHANGED <<memory_queue, all_memories, active_workers,
                   action_timesteps, update_calls>>
    /\ UNCHANGED <<ppoVars, workerVars, gaeVars, lrVars, loaderVars, lossVars,
                   memory_lists>>

\* the environment of this repository never reports truncation
Truncations == {FALSE}

\* worker() when every call it makes returns
WorkerRuns(r) ==
    \/ WorkerInit(r)
    \/ WorkerActRead(r)
    \/ \E done \in BOOLEAN, truncated \in Truncations : WorkerStep(r, done, truncated)
    \/ WorkerClose(r)
    \/ WorkerSentinel(r)
    \/ WorkerExit(r)

\* worker() ended by an exception of one of its calls
WorkerFails(r) ==
    \/ WorkerActFail(r)
    \/ WorkerStepFail(r)
    \/ WorkerCloseFail(r)

Worker(r) == WorkerRuns(r) \/ WorkerFails(r)

Coordinator ==
    \/ StartIteration
    \/ CoordRecv
    \/ CoordTimeout
    \/ UpdateBegin
    \/ GradStep
    \/ PublishParam
    \/ AfterUpdate
    \/ CoordExitLoop
    \/ JoinAll
    \/ HigherUpdate

Next == Coordinator \/ \E r \in Ranks : Worker(r)

Spec == Init /\ [][Next]_vars

\* the trainer when no call of a worker raises; as long as some process can
\* take a step, a step is eventually taken (the processes are scheduled by
\* the operating system, a blocked get() wakes up on put() or on its
\* timeout).  Fairness towards each process separately implies this
\* condition, so what holds under it holds under per-process fairness too.
NextRuns == Coordinator \/ \E r \in Ranks : WorkerRuns(r)

SpecRuns ==
    /\ Init
    /\ [][NextRuns]_vars
    /\ WF_vars(NextRuns)

NotTerminal(is_terminals, step) == IF is_terminals[step] THEN 0 ELSE 1

\* if is_terminals[step] or step == len(rewards) - 1:
LastOrTerminal(is_terminals, step) ==
    is_terminals[step] \/ step = Len(is_terminals)

NextValueShifted(values, is_terminals, step) ==
    IF LastOrTerminal(is_terminals, step) THEN RInt(0) ELSE RInt(values[step])

\* next_value = 0 in the branch, values[step + 1] otherwise
NextValue(values, is_terminals, step) ==
    IF LastOrTerminal(is_terminals, step) THEN RInt(0) ELSE RInt(values[step + 1])

\* delta = rewards[step] + gamma * next_value * (1 - is_terminals[step]) - values[step]
Delta(rewards, values, is_terminals, g, step) ==
    RSub(RAdd(RInt(rewards[step]),
              RMul(RMul(g, NextValue(values, is_terminals, step)),
                   RInt(NotTerminal(is_terminals, step)))),
         RInt(values[step]))

\* an estimator that knows no episode ends: only the last index is special
GaeStepNoTerminals(rewards, values, is_terminals, g, l, step, gae) ==
    LET last == step = Len(rewards)
        next_value == IF last THEN RInt(0) ELSE RInt(values[step + 1])
        gae0 == IF last THEN RInt(0) ELSE gae
    IN RAdd(RSub(RAdd(RInt(rewards[step]), RMul(g, next_value)), RInt(values[step])),
            RMul(RMul(g, l), gae0))

\* an estimator whose running sum runs through an episode end: only the
\* bootstrap value is masked at a terminal transition
GaeStepCarries(rewards, values, is_terminals, g, l, step, gae) ==
    LET gae0 == IF step = Len(rewards) THEN RInt(0) ELSE gae
    IN RAdd(Delta(rewards, values, is_terminals, g, step),
            RMul(RMul(g, l), gae0))

\* an estimator that discounts the running sum by gamma alone
GaeStepNoDecay(rewards, values, is_terminals, g, l, step, gae) ==
    LET gae0 == IF LastOrTerminal(is_terminals, step) THEN RInt(0) ELSE gae
    IN RAdd(Delta(rewards, values, is_terminals, g, step),
            RMul(RMul(g, RInt(NotTerminal(is_terminals, step))), gae0))

\* an estimator whose running sum decays by gae_lambda alone
GaeStepLambdaOnly(rewards, values, is_terminals, g, l, step, gae) ==
    LET gae0 == IF LastOrTerminal(is_terminals, step) THEN RInt(0) ELSE gae
    IN RAdd(Delta(rewards, values, is_terminals, g, step),
            RMul(RMul(l, RInt(NotTerminal(is_terminals, step))), gae0))

\* one pass of the loop body: the new value of gae
GaeStep(rewards, values, is_terminals, g, l, step, gae) ==
    LET gae0 == IF LastOrTerminal(is_terminals, step) THEN RInt(0) ELSE gae
    IN RAdd(Delta(rewards, values, is_terminals, g, step),
            RMul(RMul(RMul(g, l), RInt(NotTerminal(is_terminals, step))), gae0))

RECURSIVE GaeLoop(_, _, _, _, _, _, _, _)
\* for step in reversed(range(len(rewards))): ... advantages.insert(0, gae)
GaeLoop(rewards, values, is_terminals, g, l, step, gae, advs) ==
    IF step = 0 THEN advs
    ELSE LET gae1 == GaeStep(rewards, values, is_terminals, g, l, step, gae)
         IN GaeLoop(rewards, values, is_terminals, g, l, step - 1, gae1,
                    <<gae1>> \o advs)

\* a compute_gae that leaves out the last index of the batch
compute_gae_short(rewards, values, is_terminals, g, l) ==
    GaeLoop(rewards, values, is_terminals, g, l, Len(rewards) - 1, RInt(0), <<>>)

compute_gae(rewards, values, is_terminals, g, l) ==
    GaeLoop(rewards, values, is_terminals, g, l, Len(rewards), RInt(0), <<>>)

(* ---------------------------------------------------------------------- *)
(* The estimator as update() calls it: memories are lists of transitions  *)
(* [reward, value, is_terminal], value being critic(state).               *)
(* ---------------------------------------------------------------------- *)
MaxLen == 3
RewardSet == {0, 1}
ValueSet == {0, 2}
Gammas == {<<1, 2>>, <<1, 1>>}
Lambdas == {<<0, 1>>, <<2, 3>>}
GaeTransitions ==
    [reward : RewardSet, value : ValueSet, is_terminal : BOOLEAN]

RewardsOf(mem) == [i \in 1 .. Len(mem) |-> mem[i].reward]
ValuesOf(mem) == [i \in 1 .. Len(mem) |-> mem[i].value]
TerminalsOf(mem) == [i \in 1 .. Len(mem) |-> mem[i].is_terminal]

\* update(): combined_memory, values = critic(old_states), compute_gae(...)
UpdateAdvantages(mems, g, l) ==
    LET combined_memory == Concat(mems)
    IN compute_gae(RewardsOf(combined_memory), ValuesOf(combined_memory),
                   TerminalsOf(combined_memory), g, l)

\* returns computed from the advantages after their mean was subtracted
ReturnsCentered(advs, values) ==
    LET mean == RDivInt(RSum(advs), Len(advs))
    IN [i \in 1 .. Len(advs) |-> RAdd(RSub(advs[i], mean), RInt(values[i]))]

\* returns = advantages + values
Returns(advs, values) ==
    [i \in 1 .. Len(advs) |-> RAdd(advs[i], RInt(values[i]))]

\* advantages.mean()
Mean(advs) == RDivInt(RSum(advs), Len(advs))

\* advantages.std() squared: torch's std divides by n - 1 and is nan for n = 1
Variance(advs) ==
    IF Len(advs) = 1 THEN "nan"
    ELSE LET mean == Mean(advs)
             sq == [i \in 1 .. Len(advs) |->
                      RMul(RSub(advs[i], mean), RSub(advs[i], mean))]
         IN RDivInt(RSum(sq), Len(advs) - 1)

\* (advantages - advantages.mean()) / (advantages.std() + 1e-8); element i
\* is kept exactly as the pair of its numerator and the variance, and stands
\* for num / (sqrt(var) + 1e-8)
Normalize(advs) ==
    [i \in 1 .. Len(advs) |->
        [num |-> RSub(advs[i], Mean(advs)), var |-> Variance(advs)]]

RECURSIVE Split(_, _, _)
\* the buffers of a batch seq whose boundaries lie after the indices in cuts
Split(seq, cuts, from) ==
    IF from > Len(seq) THEN <<>>
    ELSE LET ends == {c \in cuts : c >= from} \cup {Len(seq)}
             to == CHOOSE c \in ends : \A d \in ends : c <= d
         IN <<SubSeq(seq, from, to)>> \o Split(seq, cuts, to + 1)

InitGae ==
    /\ InitTrainer
    /\ InitLrTrainer
    /\ InitLoaderIdle
    /\ InitLossIdle
    /\ InitMemoryIdle
    /\ \E n \in 1 .. MaxLen :
         \E seq \in [1 .. n -> GaeTransitions] :
           \E cuts \in SUBSET (1 .. (n - 1)) :
             \E g \in Gammas, l \in Lambdas :
               estimator = [gpc |-> "ready",
                            memories |-> Split(seq, cuts, 1),
                            gamma |-> g, gae_lambda |-> l,
                            advantages |-> <<>>, returns |-> <<>>,
                            norm_advantages |-> <<>>]

\* update() up to the construction of the dataset
UpdateGae ==
    /\ gpc = "ready"
    /\ LET advs == UpdateAdvantages(memories, gamma, gae_lambda)
       IN estimator' = [estimator EXCEPT
               !.advantages = advs,
               !.returns = Returns(advs, ValuesOf(Concat(memories))),
               !.norm_advantages = Normalize(advs),
               !.gpc = "done"]
    /\ UNCHANGED <<coordVars, ppoVars, workerVars, lrVars, loaderVars, lossVars,
                   higher_updates, memory_lists>>

NextGae == UpdateGae

SpecGae == InitGae /\ [][NextGae]_vars

(* ---------------------------------------------------------------------- *)
(* update_learning_rate called on its own: any initial_lr, total_iterations *)
(* configured or not, any learning rate in the optimizer, any iteration.    *)
(* ---------------------------------------------------------------------- *)
InitialLrs == {<<1, 4>>, <<1, 2>>, <<1, 1>>, <<3, 2>>, <<2, 1>>}
StartLrs == {<<0, 1>>, <<1, 8>>, <<5, 1>>}
LrTotals == 1 .. (total_iterations + 1)

InitLr ==
    /\ InitTrainer
    /\ InitGaeIdle
    /\ InitLoaderIdle
    /\ InitLossIdle
    /\ InitMemoryIdle
    /\ lpc = "ready"
    /\ initial_lr \in InitialLrs
    /\ ppo_total_iterations \in
         {NotConfigured} \cup {Configured(n) : n \in LrTotals}
    /\ lr \in [ParamGroups -> StartLrs]
    /\ current_lr = NoLr
    /\ lr_iteration = 0

\* a call that writes the learning rate and then raises
UpdateLearningRateRaisesLate ==
    /\ lpc \in {"ready", "called"}
    /\ ~ppo_total_iterations.set
    /\ lpc' = "raised"
    /\ lr' = [g \in ParamGroups |-> initial_lr]
    /\ UNCHANGED <<initial_lr, ppo_total_iterations, current_lr, lr_iteration>>
    /\ UNCHANGED <<coordVars, ppoVars, workerVars, gaeVars, loaderVars, lossVars,
                   higher_updates, memory_lists>>

\* if self.total_iterations is None: raise ValueError(...)
UpdateLearningRateRaises ==
    /\ lpc \in {"ready", "called"}
    /\ ~ppo_total_iterations.set
    /\ lpc' = "raised"
    /\ UNCHANGED <<initial_lr, ppo_total_iterations, lr, current_lr, lr_iteration>>
    /\ UNCHANGED <<coordVars, ppoVars, workerVars, gaeVars, loaderVars, lossVars,
                   higher_updates, memory_lists>>

\* the call returns: every parameter group has the new learning rate
UpdateLearningRate(i) ==
    /\ lpc \in {"ready", "called"}
    /\ ppo_total_iterations.set
    /\ SetLr(i)
    /\ lpc' = "called"
    /\ UNCHANGED <<coordVars, ppoVars, workerVars, gaeVars, loaderVars, lossVars,
                   higher_updates, memory_lists>>

NextLr ==
    \/ UpdateLearningRateRaises
    \/ \E i \in 0 .. ppo_total_iterations.n : UpdateLearningRate(i)

SpecLr == InitLr /\ [][NextLr]_vars

(* ---------------------------------------------------------------------- *)
(* The epoch loop of update() over its DataLoader, for a dataset of any   *)
(* size 1 .. MaxBatch: DataLoader(dataset, batch_size, shuffle=True).     *)
(* ---------------------------------------------------------------------- *)
MaxBatch == 5

\* the orders a shuffle can produce: the permutations of the indices
Shuffles(n) ==
    {p \in [1 .. n -> 1 .. n] : \A i, j \in 1 .. n : p[i] = p[j] => i = j}

Min(a, b) == IF a <= b THEN a ELSE b

\* a loader that drops the last, shorter minibatch
MinibatchesDropLast(order) ==
    [k \in 1 .. (Len(order) \div batch_size) |->
        SubSeq(order, (k - 1) * batch_size + 1, k * batch_size)]

\* the minibatches of one pass: consecutive batch_size elements of the
\* shuffled order, the last one with what is left
Minibatches(order) ==
    [k \in 1 .. NumBatches(Len(order)) |->
        SubSeq(order, (k - 1) * batch_size + 1,
               Min(k * batch_size, Len(order)))]

InitLoader ==
    /\ InitTrainer
    /\ InitGaeIdle
    /\ InitLrTrainer
    /\ InitLossIdle
    /\ InitMemoryIdle
    /\ \E n \in 1 .. MaxBatch :
         dataloader = [dl_pc |-> "pass", dl_n |-> n, dl_batches |-> <<>>,
                       dl_seen |-> 0, dl_epochs |-> 0, dl_steps |-> 0]

\* for _ in range(self.K_epochs): iter(dataloader) draws a new order
LoaderBeginPass ==
    /\ dl_pc = "pass"
    /\ dl_epochs < K_epochs
    /\ \E order \in Shuffles(dl_n) :
         dataloader' = [dataloader EXCEPT !.dl_batches = Minibatches(order),
                                          !.dl_seen = 0,
                                          !.dl_pc = "batch"]
    /\ UNCHANGED <<coordVars, ppoVars, workerVars, gaeVars, lrVars, lossVars,
                   higher_updates, memory_lists>>

\* the body of the inner for: losses of one minibatch, optimizer.step()
LoaderMinibatch ==
    /\ dl_pc = "batch"
    /\ dl_seen < Len(dl_batches)
    /\ dataloader' = [dataloader EXCEPT !.dl_seen = @ + 1,
                                        !.dl_steps = @ + 1]
    /\ UNCHANGED <<coordVars, ppoVars, workerVars, gaeVars, lrVars, lossVars,
                   higher_updates, memory_lists>>

\* the dataloader is exhausted: the pass is over
LoaderEndPass ==
    /\ dl_pc = "batch"
    /\ dl_seen = Len(dl_batches)
    /\ dataloader' = [dataloader EXCEPT
           !.dl_epochs = @ + 1,
           !.dl_pc = IF dl_epochs + 1 = K_epochs THEN "finished" ELSE "pass"]
    /\ UNCHANGED <<coordVars, ppoVars, workerVars, gaeVars, lrVars, lossVars,
                   higher_updates, memory_lists>>

NextLoader == LoaderBeginPass \/ LoaderMinibatch \/ LoaderEndPass

SpecLoader == InitLoader /\ [][NextLoader]_vars

(* ---------------------------------------------------------------------- *)
(* The policy loss of one minibatch (PPO.update, body of the inner loop), *)
(* in exact rationals, over bounded minibatches.                          *)
(* ---------------------------------------------------------------------- *)
RNeg(a) == <<-a[1], a[2]>>
RMin(a, b) == IF RLeq(a, b) THEN a ELSE b
RMax(a, b) == IF RLeq(a, b) THEN b ELSE a

\* torch.clamp(x, lo, hi): min(max(x, lo), hi)
Clamp(x, lo, hi) == RMin(RMax(x, lo), hi)

\* surr1 = ratios * advantages_batch, one element
Surr1(ratio, adv) == RMul(ratio, adv)

\* a clipping interval centred on 0 instead of 1
Surr2AroundZero(ratio, adv, eps) ==
    RMul(Clamp(ratio, RNeg(eps), eps), adv)

\* surr2 = torch.clamp(ratios, 1 - eps_clip, 1 + eps_clip) * advantages_batch,
\* one element
Surr2(ratio, adv, eps) ==
    RMul(Clamp(ratio, RSub(RInt(1), eps), RAdd(RInt(1), eps)), adv)

\* policy_loss = -torch.min(surr1, surr2).mean()
PolicyLoss(rs, advs, eps) ==
    RNeg(Mean([i \in 1 .. Len(rs) |->
                  RMin(Surr1(rs[i], advs[i]), Surr2(rs[i], advs[i], eps))]))

\* ratios are exponentials, hence positive; advantages of either sign
RatioSet == {<<1, 2>>, <<1, 1>>, <<2, 1>>}
AdvantageSet == {<<-1, 1>>, <<0, 1>>, <<3, 2>>}
EpsClips == {<<0, 1>>, <<1, 5>>, <<3, 2>>}

\* a minibatch of the loader has between one and batch_size elements
InitLoss ==
    /\ InitTrainer
    /\ InitGaeIdle
    /\ InitLrTrainer
    /\ InitLoaderIdle
    /\ InitMemoryIdle
    /\ \E n \in 1 .. batch_size :
         \E rs \in [1 .. n -> RatioSet], advs \in [1 .. n -> AdvantageSet] :
           \E eps \in EpsClips :
             minibatch = [ratios |-> rs, advantages_batch |-> advs,
                          eps_clip |-> eps, policy_loss |-> NoLoss]

\* ratios, surr1, surr2 and policy_loss of the minibatch
EvaluateMinibatch ==
    /\ ratios # <<>>
    /\ policy_loss = NoLoss
    /\ minibatch' = [minibatch EXCEPT
           !.policy_loss = PolicyLoss(ratios, advantages_batch, eps_clip)]
    /\ UNCHANGED <<coordVars, ppoVars, workerVars, gaeVars, lrVars, loaderVars,
                   higher_updates, memory_lists>>

NextLoss == EvaluateMinibatch

SpecLoss == InitLoss /\ [][NextLoss]_vars

(* ---------------------------------------------------------------------- *)
(* A Memory object on its own: any sequence of append and clear_memory.   *)
(* The arguments of one append call are tagged with the decision they     *)
(* come from.                                                             *)
(* ---------------------------------------------------------------------- *)
MaxAppends == 3
Decisions == 1 .. 2

\* torch.FloatTensor(state): the converted copy of the state
FloatTensor(state) == <<"FloatTensor", state>>
\* action.clone().detach(): a copy of the action outside the graph
CloneDetach(action) == <<"detached", action>>

\* an append that leaves out the log-probability
MemoryAppendNoLogprob(d, reward, done) ==
    /\ Len(memory_lists.states) < MaxAppends
    /\ memory_lists' = [memory_lists EXCEPT
                    !.states = Append(@, FloatTensor(<<"state", d>>)),
                    !.actions = Append(@, CloneDetach(<<"action", d>>)),
                    !.rewards = Append(@, <<reward, d>>),
                    !.is_terminals = Append(@, <<done, d>>)]
    /\ UNCHANGED <<coordVars, ppoVars, workerVars, gaeVars, lrVars, loaderVars,
                   lossVars, higher_updates>>

\* Memory.append(state, action, logprob, reward, done) for decision d
MemoryAppend(d, reward, done) ==
    /\ Len(memory_lists.states) < MaxAppends
    /\ memory_lists' = [memory_lists EXCEPT
                    !.states = Append(@, FloatTensor(<<"state", d>>)),
                    !.actions = Append(@, CloneDetach(<<"action", d>>)),
                    !.logprobs = Append(@, <<"logprob", d>>),
                    !.rewards = Append(@, <<reward, d>>),
                    !.is_terminals = Append(@, <<done, d>>)]
    /\ UNCHANGED <<coordVars, ppoVars, workerVars, gaeVars, lrVars, loaderVars,
                   lossVars, higher_updates>>

\* Memory.clear_memory(): del list[:] on each of the five lists
MemoryClear ==
    /\ memory_lists' = [actions |-> <<>>, states |-> <<>>, logprobs |-> <<>>,
                  rewards |-> <<>>, is_terminals |-> <<>>]
    /\ UNCHANGED <<coordVars, ppoVars, workerVars, gaeVars, lrVars, loaderVars,
                   lossVars, higher_updates>>

InitMemory ==
    /\ InitTrainer
    /\ InitGaeIdle
    /\ InitLrTrainer
    /\ InitLoaderIdle
    /\ InitLossIdle
    /\ memory_lists = EmptyMemory

NextMemory ==
    \/ \E d \in Decisions, reward \in RewardSet, done \in BOOLEAN :
          MemoryAppend(d, reward, done)
    \/ MemoryClear

SpecMemory == InitMemory /\ [][NextMemory]_vars

(* ====================================================================== *)
(* Properties of the trainer (checked under Spec)                         *)
(* ====================================================================== *)
\* the sentinel of rank r has been put on the queue of this iteration
SentinelPut(r) ==
    \/ r \notin active_workers
    \/ \E i \in 1 .. Len(memory_queue) : memory_queue[i] = <<r, None>>

\* C1: a worker whose act() or env.step() call failed has terminated with
\* its sentinel (rank, None) put on the queue, so that the coordinator can
\* remove it from the active set.
C1_SentinelAfterFailure ==
    \A r \in Ranks : wpc[r] = "failed" => SentinelPut(r)

\* C2: the parameters one act() call reads from policy_old are all of one
\* version: all from before a publish or all from after it.
C2_NoTornRead ==
    \A r \in Ranks : \A k, l \in 1 .. Len(rd[r]) : rd[r][k] = rd[r][l]

\* C3: an arrival that takes action_timesteps from below a multiple of
\* lower_update_freq to at or above it makes the coordinator invoke
\* update() on that arrival, and the return of update() is followed by
\* clearing the accumulation list.
C3_UpdateOnCrossing ==
    [][/\ (action_timesteps' \div lower_update_freq
             > action_timesteps \div lower_update_freq) => cpc' = "update"
       /\ (cpc = "after_update" /\ cpc' # cpc) => all_memories' = <<>>]_vars

\* C4: while the cumulative count is below lower_update_freq no update()
\* has been invoked, and when buffers summing to exactly lower_update_freq
\* have arrived update() has been invoked exactly once, by the arrival
\* that completed the sum.
C4_OneUpdateAtThreshold ==
    /\ action_timesteps < lower_update_freq => update_calls = 0
    /\ action_timesteps = lower_update_freq =>
         /\ update_calls = 1
         /\ cpc \in {"update", "grad", "publish", "after_update"}
            \/ all_memories = <<>>

\* two buffers from different workers have arrived, their sizes sum to
\* lower_update_freq, and the second arrival invoked update()
C4_Witness ==
    /\ action_timesteps = lower_update_freq
    /\ cpc = "update"
    /\ update_calls = 1
    /\ Len(all_memories) = 2
    /\ all_memories[1][1].st[2] # all_memories[2][1].st[2]

\* C5: when update() starts, every transition of its batch was selected
\* under the snapshot version in place at that moment.
C5_SingleVersionBatch ==
    cpc = "update" =>
        \A i \in 1 .. BatchLen : Concat(all_memories)[i].ver = policy_old

\* C6: every change of policy_old is a step of the coordinator's
\* load_state_dict at the end of update(): no worker takes part in it, and
\* it continues the one copy in flight at the next parameter.
C6_OnlyCoordinatorWrites ==
    [][policy_old' # policy_old =>
         /\ cpc = "publish"
         /\ workerVars' = workerVars
         /\ pub_idx' = pub_idx + 1
         /\ policy_old' = [policy_old EXCEPT ![pub_idx + 1] = policy[pub_idx + 1]]
      ]_vars

\* a worker is inside act() while the coordinator's copy is in flight
C6_Witness ==
    /\ cpc = "publish"
    /\ pub_idx = 1
    /\ \E r \in Ranks : wpc[r] = "act" /\ Len(rd[r]) = 1

RECURSIVE PerBufferAdvantages(_, _, _)
\* compute_gae applied to each buffer on its own, results concatenated
PerBufferAdvantages(mems, g, l) ==
    IF mems = <<>> THEN <<>>
    ELSE UpdateAdvantages(<<Head(mems)>>, g, l)
         \o PerBufferAdvantages(Tail(mems), g, l)

Combined == Concat(memories)

\* C8: the advantages update() computes over the concatenated buffers are
\* the concatenation of compute_gae over each buffer separately.
C8_AdvantagesPerBuffer ==
    gpc = "done" =>
        advantages = PerBufferAdvantages(memories, gamma, gae_lambda)

\* C9: at every index whose terminal flag is set the advantage is
\* reward - value of that index alone.
C9_TerminalAdvantage ==
    gpc = "done" =>
        \A i \in 1 .. Len(Combined) :
            Combined[i].is_terminal =>
                advantages[i] = RInt(Combined[i].reward - Combined[i].value)

\* a terminal transition followed by a transition of non-zero value
C9_Witness ==
    /\ gpc = "done"
    /\ Len(Combined) >= 2
    /\ Combined[1].is_terminal
    /\ Combined[1].reward # Combined[1].value
    /\ Combined[2].value # 0
    /\ gamma[1] # 0
    /\ advantages[1] = RInt(Combined[1].reward - Combined[1].value)

\* C10: the result of compute_gae satisfies the reverse recursion: at the
\* last index reward - value; at an earlier non-terminal index
\* R[i] + gamma V[i+1] - V[i] + gamma lambda advantage[i+1]; at a terminal
\* index R[i] - V[i].
C10_ReverseRecursion ==
    gpc = "done" =>
        LET n == Len(Combined) IN
        /\ Len(advantages) = n
        /\ advantages[n] = RInt(Combined[n].reward - Combined[n].value)
        /\ \A i \in 1 .. (n - 1) :
             advantages[i] =
               IF Combined[i].is_terminal
               THEN RInt(Combined[i].reward - Combined[i].value)
               ELSE RAdd(RSub(RAdd(RInt(Combined[i].reward),
                                   RMul(gamma, RInt(Combined[i + 1].value))),
                              RInt(Combined[i].value)),
                         RMul(RMul(gamma, gae_lambda), advantages[i + 1]))

\* a batch of three non-terminal transitions with non-zero trace decay
C10_Witness ==
    /\ gpc = "done"
    /\ Len(Combined) >= 3
    /\ \A i \in 1 .. Len(Combined) : ~Combined[i].is_terminal
    /\ gae_lambda[1] # 0
    /\ Combined[2].value # 0
    /\ advantages[2] # RInt(0)
    /\ advantages[1] # RInt(Combined[1].reward - Combined[1].value)

\* every buffer of the batch but the last ends with a terminal transition
EndsTerminal(mem) == mem[Len(mem)].is_terminal
AllButLastEndTerminal(mems) ==
    \A i \in 1 .. (Len(mems) - 1) : EndsTerminal(mems[i])

\* C11: when buffer A ends with a terminal transition, the advantages of the
\* concatenation A ++ B are the advantages of A followed by those of B
\* (stated for any number of buffers that end terminal before the last).
C11_ConcatAfterTerminal ==
    (gpc = "done" /\ Len(memories) >= 2 /\ AllButLastEndTerminal(memories))
        => advantages = PerBufferAdvantages(memories, gamma, gae_lambda)

\* two buffers, A longer than one transition and ending terminal, B with a
\* non-zero first advantage and first value, lambda non-zero
C11_Witness ==
    /\ gpc = "done"
    /\ Len(memories) = 2
    /\ Len(memories[1]) >= 2
    /\ EndsTerminal(memories[1])
    /\ ~memories[1][1].is_terminal
    /\ memories[2][1].value # 0
    /\ gae_lambda # RInt(0)
    /\ advantages[Len(memories[1]) + 1] # RInt(0)

RECURSIVE SumLen(_)
\* the number of transitions of a list of buffers
SumLen(mems) == IF mems = <<>> THEN 0 ELSE Len(mems[1]) + SumLen(Tail(mems))

C13_ReturnsFromRawAdvantages ==
    gpc = "done" =>
        \A i \in 1 .. Len(Combined) :
            /\ returns[i] = RAdd(advantages[i], RInt(Combined[i].value))
            /\ Combined[i].is_terminal => returns[i] = RInt(Combined[i].reward)

\* advantages whose mean is not zero, so that normalizing them changes them,
\* over a batch with a non-zero value estimate
C13_Witness ==
    /\ gpc = "done"
    /\ Len(Combined) >= 2
    /\ Mean(advantages) # RInt(0)
    /\ \E i \in 1 .. Len(Combined) :
         /\ Combined[i].value # 0
         /\ norm_advantages[i].num # advantages[i]
         /\ returns[i] # RInt(Combined[i].value)

(* ---------------------------------------------------------------------- *)
(* The sentinel protocol                                                  *)
(* ---------------------------------------------------------------------- *)
\* the messages of rank r on the queue
MessagesOf(r) == {i \in 1 .. Len(memory_queue) : memory_queue[i][1] = r}
SentinelsOf(r) == {i \in MessagesOf(r) : memory_queue[i][2].none}

\* sentinels rank r has sent in this iteration: those on the queue and the
\* one the coordinator consumed when it removed r from the active set
SentinelsSent(r) ==
    Cardinality(SentinelsOf(r)) + (IF r \in active_workers THEN 0 ELSE 1)

\* nothing of rank r follows its sentinel, on the queue or after the removal
SentinelIsLast(r) ==
    /\ \A i \in SentinelsOf(r) : \A j \in MessagesOf(r) : j <= i
    /\ r \notin active_workers => MessagesOf(r) = {}

\* C14: a worker whose episode is over has sent exactly one sentinel, as its
\* last message; the coordinator never receives a buffer from a rank it has
\* removed and its remove() never misses the rank.
C14_OneSentinelLast ==
    /\ \A r \in Ranks : Ended(r) => SentinelsSent(r) = 1
    /\ \A r \in Ranks : SentinelsSent(r) <= 1 /\ SentinelIsLast(r)
    /\ cpc # "error"

(* ---------------------------------------------------------------------- *)
(* Flushing                                                               *)
(* ---------------------------------------------------------------------- *)
\* the buffers on the queue and those the coordinator has accumulated
BuffersInFlight ==
    {memory_queue[i][2].mem :
        i \in {j \in 1 .. Len(memory_queue) : ~memory_queue[j][2].none}}
BuffersReceived == {all_memories[i] : i \in 1 .. Len(all_memories)}

\* rank r completed a step of its loop
Stepped(r) == t'[r] = t[r] + 1

\* the step of rank r put a message on the queue
Flushed(r) ==
    /\ Len(memory_queue') = Len(memory_queue) + 1
    /\ memory_queue'[Len(memory_queue')][1] = r

\* C15: a worker flushes exactly when its steps since the last flush reach
\* memory_transfer_freq or the step ended the episode; the flush sends all
\* transitions since the last one and leaves the buffer empty and the
\* counter at 0; a flushed buffer holds 1 .. memory_transfer_freq transitions.
C15_FlushAtThresholdOrEnd ==
    /\ [](\A b \in BuffersInFlight \cup BuffersReceived :
            Len(b) >= 1 /\ Len(b) <= memory_transfer_freq)
    /\ [](\A r \in Ranks :
            /\ Len(local_memory[r]) = steps_since_update[r]
            /\ steps_since_update[r] < memory_transfer_freq)
    /\ [][\A r \in Ranks : Stepped(r) =>
            LET steps == steps_since_update[r] + 1
                sent == memory_queue'[Len(memory_queue')][2].mem
                tr == IF Flushed(r) THEN sent[Len(sent)]
                      ELSE local_memory'[r][Len(local_memory'[r])]
            IN /\ Flushed(r) <=> (steps = memory_transfer_freq \/ tr.done)
               /\ memory_queue' # memory_queue => Flushed(r)
               /\ Flushed(r) =>
                     /\ sent = Append(local_memory[r], tr)
                     /\ local_memory'[r] = <<>>
                     /\ steps_since_update'[r] = 0
               /\ ~Flushed(r) =>
                     /\ local_memory'[r] = Append(local_memory[r], tr)
                     /\ steps_since_update'[r] = steps]_vars

\* a worker that flushed a full buffer at the threshold and goes on with an
\* empty one, while the other worker flushed a short buffer at its episode end
C15_Witness ==
    \E r, q \in Ranks :
        /\ r # q
        /\ wpc[r] = "act"
        /\ t[r] = memory_transfer_freq
        /\ local_memory[r] = <<>>
        /\ steps_since_update[r] = 0
        /\ \E b \in BuffersInFlight \cup BuffersReceived :
             Len(b) = memory_transfer_freq /\ b[1].st[2] = r /\ ~b[Len(b)].done
        /\ \E b \in BuffersInFlight \cup BuffersReceived :
             Len(b) = 1 /\ b[1].st[2] = q /\ b[1].done

\* C16: when a call of a worker fails in mid-episode, the transitions it
\* collected since its last flush are put on the queue, followed by its
\* sentinel, so that the coordinator goes on with the smaller batch.
C16_FailureEmitsCollected ==
    \A r \in Ranks :
        (wpc[r] = "failed" /\ t[r] >= 1) =>
            /\ local_memory[r] = <<>>
            /\ SentinelPut(r)

\* C17: a worker has put its sentinel before it closes its environment:
\* when the close call is left, by a return or by an exception, the sentinel
\* of the worker has been sent.
C17_SentinelBeforeClose ==
    [][\A r \in Ranks :
          (wpc[r] = "close" /\ wpc'[r] # "close") => SentinelPut(r)]_vars

(* ---------------------------------------------------------------------- *)
(* Accounting of transitions                                              *)
(* ---------------------------------------------------------------------- *)
\* the transitions on the queue, in the accumulation list and in the
\* workers' local buffers, in this order
OnQueue == Concat([i \in 1 .. Len(memory_queue) |-> memory_queue[i][2].mem])
Accumulated == Concat(all_memories)
InWorkers == Concat([i \in 1 .. lower_num_processes |-> local_memory[i - 1]])
Held == Accumulated \o OnQueue \o InWorkers

\* C18: a transition is handed over at most once: no transition is in two
\* flushed buffers or in a flushed buffer and still in its worker's buffer,
\* and the step counter grows by the length of a buffer exactly when that
\* buffer leaves the queue for the accumulation list.
C18_HandedOverOnce ==
    /\ [](LET held == Held
          IN \A i \in 1 .. Len(held) : \A j \in (i + 1) .. Len(held) :
                held[i].st # held[j].st)
    /\ [][action_timesteps' # action_timesteps =>
            LET b == Head(memory_queue)[2].mem
            IN /\ memory_queue # <<>>
               /\ memory_queue' = Tail(memory_queue)
               /\ all_memories' = Append(all_memories, b)
               /\ action_timesteps' = action_timesteps + Len(b)]_vars
    /\ [][(/\ memory_queue # <<>>
             /\ memory_queue' = Tail(memory_queue)
             /\ ~Head(memory_queue)[2].none)
            => action_timesteps' =
                 action_timesteps + Len(Head(memory_queue)[2].mem)]_vars

\* a worker has flushed twice in one episode and the coordinator has counted
\* the transitions of both buffers
C18_Witness ==
    \E r \in Ranks :
        /\ Len(all_memories) = 2
        /\ all_memories[1][1].st[2] = r
        /\ all_memories[2][1].st[2] = r
        /\ all_memories[1][1].st[1] = all_memories[2][1].st[1]
        /\ Len(all_memories[1]) = memory_transfer_freq
        /\ action_timesteps = Len(all_memories[1]) + Len(all_memories[2])

(* ---------------------------------------------------------------------- *)
(* The iteration boundary                                                 *)
(* ---------------------------------------------------------------------- *)
\* the coordinator is inside the while active_workers loop
Collecting == cpc \in {"get", "update", "grad", "publish", "after_update"}

\* no worker process is running
NoneAlive == \A r \in Ranks : wpc[r] = "none" \/ Ended(r)

\* C19: the coordinator leaves the collection loop only with an empty active
\* set, goes on past the joins only when every worker process has ended,
\* runs the higher-level update only after the joins and spawns the next
\* workers only after it: no worker of an iteration is alive when the
\* workers of the next one start.
C19_JoinBeforeNextIteration ==
    /\ [][(Collecting /\ ~Collecting' /\ cpc' # "error")
            => (active_workers = {} /\ cpc = "get" /\ cpc' = "join")]_vars
    /\ [][(cpc # "higher" /\ cpc' = "higher") => (cpc = "join" /\ NoneAlive)]_vars
    /\ [][iteration' # iteration
            => (cpc = "higher" /\ iteration' = iteration + 1 /\ NoneAlive)]_vars
    /\ [][(\E r \in Ranks : wpc[r] # "init" /\ wpc'[r] = "init")
            => (cpc = "spawn" /\ NoneAlive)]_vars
    /\ [](cpc \in {"higher", "spawn", "done"} => NoneAlive)

\* in the second iteration the coordinator is at the joins while a worker
\* that has sent its sentinel is still running
C19_Witness ==
    /\ iteration = 1
    /\ cpc = "join"
    /\ active_workers = {}
    /\ \E r \in Ranks : wpc[r] = "returned"

(* ---------------------------------------------------------------------- *)
(* Waiting for workers                                                    *)
(* ---------------------------------------------------------------------- *)
\* rank r has not put its sentinel and will not: its process has ended
NeverSendsSentinel(r) == wpc[r] = "failed" /\ ~SentinelPut(r)

\* C21: while some worker never sends its sentinel the coordinator does not
\* abandon it: the rank stays in the active set, the coordinator stays in
\* its collection loop (back at the wait after every timeout) and reaches
\* neither the joins nor the higher-level update nor the next iteration.
C21_NeverAbandonsWorker ==
    /\ [](\A r \in Ranks :
            wpc[r] = "failed" => (r \in active_workers /\ Collecting))
    /\ [][(\E r \in Ranks : NeverSendsSentinel(r))
            => (Collecting' /\ iteration' = iteration
                /\ \A r \in Ranks : NeverSendsSentinel(r) => NeverSendsSentinel(r)')]_vars

\* a worker has failed, the other one has sent its sentinel and was removed,
\* the queue is empty: all that is left to the coordinator are timeouts
C21_Witness ==
    \E r \in Ranks :
        /\ NeverSendsSentinel(r)
        /\ active_workers = {r}
        /\ memory_queue = <<>>
        /\ cpc = "get"
        /\ ENABLED CoordTimeout

\* the coordinator is blocked in get() on an empty queue: the next thing it
\* does is the timeout
AwaitingOnEmptyQueue ==
    cpc = "get" /\ active_workers # {} /\ memory_queue = <<>>

\* C22: a receive timeout changes nothing in the coordinator: from a wait
\* on an empty queue, until a message arrives, the active set, the
\* accumulation list, the step counter and both policies stay as they are
\* and the coordinator is waiting again.
C22_TimeoutChangesNothing ==
    [][AwaitingOnEmptyQueue =>
          /\ cpc' = "get"
          /\ active_workers' = active_workers
          /\ all_memories' = all_memories
          /\ action_timesteps' = action_timesteps
          /\ update_calls' = update_calls
          /\ iteration' = iteration
          /\ policy' = policy
          /\ policy_old' = policy_old]_vars

\* a timeout with a non-empty accumulation list and a non-zero counter
C22_Witness ==
    /\ AwaitingOnEmptyQueue
    /\ ENABLED CoordTimeout
    /\ all_memories # <<>>
    /\ action_timesteps > 0
    /\ policy[1] > 0

\* C23: update() is never called on an empty batch: at every call the
\* accumulated buffers hold at least one transition, each of them holds at
\* least one, and the call does not fail on an empty stack.
C23_UpdateBatchNotEmpty ==
    /\ cpc = "update" =>
          /\ all_memories # <<>>
          /\ \A i \in 1 .. Len(all_memories) : Len(all_memories[i]) >= 1
          /\ SumLen(all_memories) >= 1
    /\ cpc # "error"

\* an update whose whole batch is one buffer of a single transition, called
\* after an earlier update has emptied the accumulation list
C23_Witness ==
    /\ cpc = "update"
    /\ update_calls >= 2
    /\ Len(all_memories) = 1
    /\ Len(all_memories[1]) = 1

\* C24: no transition is used by more than one update: when update() is
\* called its batch holds no transition an earlier update has used, and
\* when the coordinator goes back to waiting after an update the
\* accumulation list is empty.
C24_ConsumedOnce ==
    /\ [](cpc \in {"update", "grad", "publish", "after_update"}
            => Ids(all_memories) \cap consumed = {})
    /\ [][(cpc = "after_update" /\ cpc' # "after_update")
            => (all_memories' = <<>> /\ cpc' = "get"
                /\ consumed' = consumed \cup Ids(all_memories))]_vars
    /\ [](Ids(all_memories) \cap consumed = {})

\* a second update in one iteration, on buffers received after the first
C24_Witness ==
    /\ cpc = "update"
    /\ consumed # {}
    /\ all_memories # <<>>
    /\ \E x \in consumed : x[1] = iteration

(* ====================================================================== *)
(* Properties of the learning rate                                        *)
(* ====================================================================== *)
\* C25: update_learning_rate gives initial_lr at iteration 0 and 0 at
\* iteration total_iterations, a later iteration never gives a larger rate,
\* and the value returned is the one written to every parameter group.
C25_LinearAnnealing ==
    /\ [](lpc = "called" =>
            /\ \A g \in ParamGroups : lr[g] = current_lr
            /\ lr_iteration = 0 => current_lr = initial_lr
            /\ lr_iteration = ppo_total_iterations.n => current_lr = RInt(0)
            /\ RLeq(RInt(0), current_lr) /\ RLeq(current_lr, initial_lr))
    /\ [][(lpc = "called" /\ lpc' = "called" /\ lr_iteration' > lr_iteration)
            => RLeq(current_lr', current_lr)]_vars
    /\ [][(lpc = "called" /\ lpc' = "called" /\ lr_iteration' = lr_iteration + 1)
            => RSub(current_lr, current_lr')
                 = RDivInt(initial_lr, ppo_total_iterations.n)]_vars

\* the call for the last index of a schedule of three iterations, on an
\* optimizer whose learning rate was something else
C25_Witness ==
    /\ lpc = "called"
    /\ ppo_total_iterations.n = 3
    /\ lr_iteration = 3
    /\ initial_lr = <<3, 2>>
    /\ \A g \in ParamGroups : lr[g] = RInt(0)

\* C26: in the training loop the learning rate reaches zero at the final
\* iteration: the rate set for the last iteration train() runs is 0.
C26_ZeroAtLastIteration ==
    (lower_anneal_lr /\ iteration = total_iterations - 1 /\ cpc # "spawn")
        => \A g \in ParamGroups : lr[g] = RInt(0)

\* C27: update_learning_rate called while total_iterations is None fails
\* and leaves the learning rate of the optimizer as it was.
C27_RejectsWhenNotConfigured ==
    /\ [][(lpc' = "raised" /\ lpc # "raised")
            => (~ppo_total_iterations.set /\ lr' = lr
                /\ current_lr' = current_lr)]_vars
    /\ [][(~ppo_total_iterations.set /\ lpc = "ready")
            => (lpc' = "raised" /\ lr' = lr)]_vars
    /\ [](lpc = "called" => ppo_total_iterations.set)

\* the call has failed on an optimizer whose learning rate is not initial_lr
C27_Witness ==
    /\ lpc = "raised"
    /\ ppo_total_iterations = NotConfigured
    /\ \A g \in ParamGroups : lr[g] = <<1, 8>>
    /\ initial_lr = <<1, 1>>

(* ====================================================================== *)
(* Properties of the epoch loop                                           *)
(* ====================================================================== *)
\* how often dataset index i occurs in the minibatches of this pass
Occurrences(i) ==
    Cardinality({<<k, j>> \in (1 .. Len(dl_batches)) \X (1 .. batch_size) :
                    j <= Len(dl_batches[k]) /\ dl_batches[k][j] = i})

C29_UnitRatioLoss ==
    (policy_loss # NoLoss /\ \A i \in DOMAIN ratios : ratios[i] = RInt(1))
        => policy_loss = RNeg(Mean(advantages_batch))

\* a minibatch of two with ratio 1 everywhere, one negative and one positive
\* advantage, evaluated with a positive eps_clip
C29_Witness ==
    /\ policy_loss # NoLoss
    /\ Len(ratios) = 2
    /\ \A i \in DOMAIN ratios : ratios[i] = RInt(1)
    /\ advantages_batch[1][1] < 0
    /\ advantages_batch[2][1] > 0
    /\ eps_clip = <<1, 5>>

\* C30: over a batch without terminal flags and with gae_lambda = 0, the
\* advantage at every index but the last is the one-step TD error
\* reward[i] + gamma * value[i + 1] - value[i].
C30_OneStepTdError ==
    (/\ gpc = "done"
     /\ gae_lambda = RInt(0)
     /\ \A i \in 1 .. Len(Combined) : ~Combined[i].is_terminal)
        => \A i \in 1 .. (Len(Combined) - 1) :
              advantages[i] =
                  RSub(RAdd(RInt(Combined[i].reward),
                            RMul(gamma, RInt(Combined[i + 1].value))),
                       RInt(Combined[i].value))

\* three non-terminal transitions, gae_lambda = 0 and gamma below one, with
\* a non-zero next value and a non-zero next advantage at the first index
C30_Witness ==
    /\ gpc = "done"
    /\ gae_lambda = RInt(0)
    /\ gamma = <<1, 2>>
    /\ Len(Combined) = 3
    /\ \A i \in 1 .. 3 : ~Combined[i].is_terminal
    /\ Combined[2].value # 0
    /\ advantages[2] # RInt(0)
    /\ advantages[1] =
          RInt(Combined[1].reward + 1 - Combined[1].value)

RECURSIVE RPow(_, _)
RPow(c, k) == IF k = 0 THEN RInt(1) ELSE RMul(c, RPow(c, k - 1))

\* for each transition of a buffer, the rewards from it to the end of the
\* buffer, the k-th one after it weighted by c^k
RewardTrace(mem, c) ==
    [i \in 1 .. Len(mem) |->
        RSum([k \in 1 .. (Len(mem) - i + 1) |->
                 RMul(RPow(c, k - 1), RInt(mem[i + k - 1].reward))])]

RECURSIVE RewardTraces(_, _)
RewardTraces(mems, c) ==
    IF mems = <<>> THEN <<>>
    ELSE RewardTrace(Head(mems), c) \o RewardTraces(Tail(mems), c)

\* a buffer as a worker flushes it at the end of an episode: its last
\* transition, and no other, is terminal
EpisodeEnd(mem) == \A i \in 1 .. Len(mem) : mem[i].is_terminal <=> i = Len(mem)

InDecisionOrder(b) ==
    \A i \in 1 .. (Len(b) - 1) :
        b[i + 1].st = <<b[i].st[1], b[i].st[2], b[i].st[3] + 1>>

\* the number of transitions before buffer k in the combined batch
OffsetOf(k) == SumLen(SubSeq(all_memories, 1, k - 1))

\* C32: every buffer, in a worker, on the queue or accumulated, holds its
\* transitions in the worker's decision order, and in the combined batch of
\* update() each accumulated buffer is a contiguous run in that same order.
C32_OrderPreserved ==
    /\ \A b \in BuffersInFlight \cup BuffersReceived
                 \cup {local_memory[r] : r \in Ranks} : InDecisionOrder(b)
    /\ LET combined_memory == Concat(all_memories)
       IN \A k \in 1 .. Len(all_memories) :
             SubSeq(combined_memory, OffsetOf(k) + 1,
                    OffsetOf(k) + Len(all_memories[k])) = all_memories[k]

\* update() is at work on two buffers of different workers, the first of
\* them with two transitions
C32_Witness ==
    /\ cpc = "grad"
    /\ Len(all_memories) = 2
    /\ Len(all_memories[1]) = 2
    /\ all_memories[1][1].st[2] # all_memories[2][1].st[2]
    /\ all_memories[1][2].st[3] = all_memories[1][1].st[3] + 1

\* the worker process of rank r is past its set-up and has not ended
Running(r) == wpc[r] \in {"act", "step", "close", "sentinel", "returned"}

\* C33: every running worker has a rank in 0 .. N - 1, an environment
\* constructed with that rank as worker_id and the seed global_seed + rank;
\* two workers running at the same time have different seeds, different
\* environments and no output trip file in common.
C33_WorkersShareNothing ==
    /\ \A r \in Ranks : Running(r) =>
          /\ r \in 0 .. (lower_num_processes - 1)
          /\ env[r].worker_id = r
          /\ env[r].worker_seed = SEED + r
    /\ \A r1, r2 \in Ranks : (r1 # r2 /\ Running(r1) /\ Running(r2)) =>
          /\ env[r1].worker_seed # env[r2].worker_seed
          /\ env[r1].worker_id # env[r2].worker_id
          /\ TripFiles(env[r1]) \cap TripFiles(env[r2]) = {}

\* two workers are in their episodes at once, each with its simulation
\* running
C33_Witness ==
    /\ \A r \in Ranks : wpc[r] \in {"act", "step"} /\ env[r].sumo_running
    /\ env[0].worker_seed = SEED
    /\ env[1].worker_seed = SEED + 1
    /\ iteration = 1

\* C34: when a worker is about to put its sentinel, or has done so, every
\* transition it appended has been put on the queue: its local buffer is
\* empty, however its episode ended.
C34_NothingLeftAtSentinel ==
    \A r \in Ranks :
        wpc[r] \in {"sentinel", "returned", "exited"} => local_memory[r] = <<>>

\* C35: a transition the coordinator has accumulated stays accumulated until
\* an update has used it: the accumulation list loses transitions only to
\* an update, in particular not when an iteration ends and the next begins.
C35_AccumulatedUntilConsumed ==
    [][\A x \in Ids(all_memories) :
          x \in Ids(all_memories') \/ x \in consumed']_vars

\* the coordinator's get() returns a buffer in this step
ReceivesBuffer ==
    /\ cpc = "get"
    /\ memory_queue # <<>>
    /\ memory_queue' = Tail(memory_queue)
    /\ ~Head(memory_queue)[2].none

\* C36: action_timesteps is 0 when training starts and from then on grows
\* by the length of every buffer the coordinator receives and changes in no
\* other step: not when an iteration starts or ends, not after an update,
\* not on a sentinel, not on a timeout. It is thus the number of
\* transitions received since the start of training.
C36_CounterIsRunningTotal ==
    /\ []((iteration = 0 /\ cpc = "spawn") => action_timesteps = 0)
    /\ [][action_timesteps' =
            action_timesteps
              + (IF ReceivesBuffer THEN Len(Head(memory_queue)[2].mem)
                 ELSE 0)]_vars
    /\ [](action_timesteps >= Len(Accumulated) + Cardinality(consumed))

\* in the second iteration, after an update, the counter is above what the
\* workers of one iteration can send
C36_Witness ==
    /\ iteration = 1
    /\ cpc = "get"
    /\ update_calls >= 1
    /\ action_timesteps
         > lower_num_processes * total_action_timesteps_per_episode

\* the coordinator is past the collection loop of the current iteration
\* (or of the one before, when about to start the next)
PastCollection == cpc \in {"join", "higher", "spawn", "done"}

\* C37: every transition on the queue was put by a worker of the current
\* iteration, and so is every buffer the coordinator takes off it; an
\* iteration starts with a new, empty queue when no worker of the iteration
\* before is left; and when the collection loop is over the queue is empty:
\* everything the workers put has been received in their own iteration.
C37_FreshChannelPerIteration ==
    /\ [](\A b \in BuffersInFlight :
            \A i \in 1 .. Len(b) : b[i].st[1] = iteration)
    /\ [][ReceivesBuffer =>
            \A i \in 1 .. Len(Head(memory_queue)[2].mem) :
                Head(memory_queue)[2].mem[i].st[1] = iteration]_vars
    /\ [][(cpc = "spawn" /\ cpc' = "get") =>
            /\ memory_queue' = <<>>
            /\ \A r \in Ranks : wpc[r] = "none" \/ Ended(r)]_vars
    /\ [](PastCollection => memory_queue = <<>>)

\* the collection loop of the second iteration is over: its buffers have
\* been received and its queue is empty
C37_Witness ==
    /\ iteration = 1
    /\ cpc = "join"
    /\ memory_queue = <<>>
    /\ all_memories # <<>>
    /\ \A x \in Ids(all_memories) : x[1] = 1
    /\ \A r \in Ranks : t[r] >= 1

\* the iterations below n that are multiples of higher_update_freq, ascending
DueIterations(n) ==
    SelectSeq([k \in 1 .. n |-> k - 1], LAMBDA i : i % higher_update_freq = 0)

C39_ListsAligned ==
    /\ [](LET n == Len(memory_lists.states) IN
          /\ Len(memory_lists.actions) = n
          /\ Len(memory_lists.logprobs) = n
          /\ Len(memory_lists.rewards) = n
          /\ Len(memory_lists.is_terminals) = n
          /\ \A j \in 1 .. n :
                \E d \in Decisions :
                    /\ memory_lists.states[j] = FloatTensor(<<"state", d>>)
                    /\ memory_lists.actions[j] = CloneDetach(<<"action", d>>)
                    /\ memory_lists.logprobs[j] = <<"logprob", d>>
                    /\ memory_lists.rewards[j][2] = d
                    /\ memory_lists.is_terminals[j][2] = d)
    /\ [][Len(memory_lists'.states) < Len(memory_lists.states)
            => memory_lists' = EmptyMemory]_vars

\* two appends of different decisions: the buffer holds decision 2 and
\* then decision 1, the second one terminal
C39_Witness ==
    /\ Len(memory_lists.states) = 2
    /\ memory_lists.logprobs = <<<<"logprob", 2>>, <<"logprob", 1>>>>
    /\ memory_lists.rewards = <<<<0, 2>>, <<1, 1>>>>
    /\ memory_lists.is_terminals = <<<<FALSE, 2>>, <<TRUE, 1>>>>

====
